---- MODULE Spec2Model ----
(***************************************************************************)
(* Scheduling and distributed-execution coordinator of fortune-flow-end:   *)
(* services/taskScheduler.js (cron timers per scheduled task),             *)
(* services/taskExecutor.js (admission, p-queue, dispatch, result waiters) *)
(* and the WebSocketService class (worker channel).                        *)
(*                                                                         *)
(* Every asynchronous handler is cut at the awaits that matter: the        *)
(* synchronous prefix of a handler is one action, the part that runs after *)
(* its store round trips is another.                                       *)
(***************************************************************************)
EXTENDS Integers, Sequences, FiniteSets, TLC

\* ------------------------------------------------------------------ bounds
MaxJobs == 3
InitialJobs == 2
MaxExec == 5
\* the runs admitted when the queue is studied together with the worker channel
MaxAdmitted == 4
MaxRuns == 3
MaxFires == 2
MaxUpdates == 1
MaxConns == 2
MaxWorkers == 1
MaxLoads == 2
MaxTime == 1
\* the largest fromDate given to calculateNextRunTime when it is studied on its own
MaxFrom == 8

\* ------------------------------------------------------- program constants
\* p-queue options of taskExecutor.js
Concurrency == 3
IntervalCap == 5

Jobs == 1..MaxJobs
ExecIds == 1..MaxExec
Conns == 1..MaxConns
\* the connections the executor's own specifications let connect
Workers == 1..MaxWorkers
LoadIds == 1..MaxLoads

NoTime == -1
NoExec == 0
NoJob == 0
\* one hour, in clock ticks
Hour == 3

\* scheduled_tasks documents: every job has its own (shopId, taskType) pair,
\* which the unique index shopId_taskType_unique of app.js enforces.
shopId(j) == (j + 1) \div 2
taskType(j) == IF j % 2 = 1 THEN "auto_flow" ELSE "login"
\* cron expressions are kept as their period in clock ticks; Malformed stands for
\* a string that cron.validate and the cron parser reject
Malformed == 0
CronExpressions == {1, 2}

VARIABLES
  now,               \* the wall clock, in ticks
  scheduled_tasks,   \* collection scheduled_tasks: job id -> document
  task_executions,   \* collection task_executions: sequence of documents, index = _id
  isStarted,         \* TaskScheduler.isStarted
  jobs,              \* TaskScheduler.jobs: the job ids that have an entry in the Map
  cronLive,          \* job id -> number of node-cron tasks scheduled and not destroyed
  cronTask,          \* job id -> failureCount of the document its timer was scheduled with
  loads,             \* loadTasks calls between their store read and their reinstall
  clients,           \* WebSocketService.clients with each socket's readyState
  wss,               \* WebSocketService.wss is set (the server listens)
  closeReason,       \* per socket: the reason the 'connection' handler closed it with
  unhandled,         \* a promise was rejected with nobody handling the rejection
  queue,             \* p-queue: operations waiting, in order
  pending,           \* p-queue: number of operations started and not settled
  intervalCount,     \* p-queue: operations started in the current interval
  pc,                \* per Execution: where its queued operation stands
  outcome,           \* per Execution: how the promise of executeTaskInClient settled
  taskResultWaiters, \* job id -> the Execution whose dispatch holds the entry
  timeout,           \* per Execution: state of the 30-minute timer of its dispatch
  armOrder,          \* the armed 30-minute timers, earliest deadline first
  reconciling,       \* result/timeout handlers between taking a waiter and settling
  statusUpdates,     \* job id -> number of task:status-update broadcasts per status
  lastUpdate,        \* the last task:status-update message built
  sentExecute,       \* per Execution: task:execute sends that succeeded
  ended,             \* per Execution: reconciliation writes that marked it ended
  logs,              \* per Execution: number of entries in its logs array
  snapshot,          \* per Execution: failureCount of the task object executeTask was given
  computed,          \* a call of calculateNextRunTime: its arguments, the clock, its result
  inserted,          \* createTask calls between insertOne and scheduleTask
  deleting           \* job id -> how far a deleteTask call on it has come

vars == <<now, scheduled_tasks, task_executions, isStarted, jobs, cronLive, cronTask, loads,
          clients, wss, closeReason, unhandled, queue, pending, intervalCount, pc, outcome, taskResultWaiters,
          timeout, armOrder, reconciling, statusUpdates, lastUpdate, sentExecute,
          ended, logs, snapshot, computed, inserted, deleting>>

schedVars == <<isStarted, jobs, cronLive, cronTask, loads, inserted, deleting>>
queueVars == <<queue, pending, intervalCount, pc>>
waitVars == <<outcome, taskResultWaiters, timeout, armOrder, reconciling, sentExecute>>
storeVars == <<scheduled_tasks, task_executions, ended, logs>>
eventVars == <<statusUpdates, lastUpdate>>
serverVars == <<wss, closeReason, unhandled>>

\* ------------------------------------------------------------ pure helpers
\* the cron expression of job j as stored
cronExpression(j) == scheduled_tasks[j].cronExpression

Min(a, b) == IF a < b THEN a ELSE b

\* calculateNextRunTime: the next multiple of the period strictly after fromDate;
\* when the parser throws, one hour after the current time
calculateNextRunTimeFrom(cron, fromDate) ==
  LET currentDate == IF fromDate = NoTime THEN now ELSE fromDate
  IN  IF cron = Malformed THEN now + Hour
      ELSE ((currentDate + cron - 1) \div cron) * cron

calculateNextRunTime(cron, fromDate) ==
  LET currentDate == IF fromDate = NoTime THEN now ELSE fromDate
  IN  IF cron = Malformed THEN now + Hour
      ELSE ((currentDate \div cron) + 1) * cron

Remove(s, x) == SelectSeq(s, LAMBDA y : y # x)

\* a field the message does not have
NoCount == -1

NoUpdate ==
  [taskId |-> 0, status |-> "none", nextRunAt |-> NoTime, successCount |-> NoCount,
   failureCount |-> NoCount]

\* no call of calculateNextRunTime under study
NoCall == [cron |-> Malformed, fromDate |-> NoTime, result |-> NoTime, again |-> NoTime]

\* a status message that is never sent
PublishedNever(j, st) ==
  statusUpdates

\* broadcastTaskStatusUpdate: builds the message and broadcasts it
Published(j, st) ==
  [statusUpdates EXCEPT ![j][st] = @ + 1]

\* a scheduled_tasks document as createTask inserts it; doc tells whether the id
\* is in the collection ("stored"), was never inserted ("none") or was deleted
NewTask(cron, enabled) ==
  [doc |-> "stored", cronExpression |-> cron, enabled |-> enabled,
   status |-> "pending", runCount |-> 0, successCount |-> 0, failureCount |-> 0,
   nextRunAt |-> NoTime, lastRunAt |-> NoTime]

NoTask(doc) ==
  [doc |-> doc, cronExpression |-> Malformed, enabled |-> FALSE,
   status |-> "pending", runCount |-> 0, successCount |-> 0, failureCount |-> 0,
   nextRunAt |-> NoTime, lastRunAt |-> NoTime]

Stored(j) == scheduled_tasks[j].doc = "stored"

\* a loadTasks call that is not in progress
IdleCall ==
  [state |-> "idle", tasks |-> {}, cron |-> [j \in Jobs |-> Malformed],
   failureCount |-> [j \in Jobs |-> 0], start |-> FALSE, update |-> NoJob]

\* ------------------------------------------------------------------- Init
\* the state the constructors and the module bodies leave, but for the clock
Constructed ==
  /\ scheduled_tasks = [j \in Jobs |->
       IF j <= InitialJobs THEN NewTask(IF j % 2 = 1 THEN 1 ELSE 2, TRUE)
       ELSE NoTask("none")]
  /\ task_executions = <<>>
  /\ isStarted = FALSE
  /\ jobs = {}
  /\ cronLive = [j \in Jobs |-> 0]
  /\ cronTask = [j \in Jobs |-> 0]
  /\ loads = [l \in LoadIds |-> IdleCall]
  /\ clients = [c \in Conns |-> "absent"]
  /\ wss = FALSE
  /\ closeReason = [c \in Conns |-> "none"]
  /\ unhandled = FALSE
  /\ queue = <<>>
  /\ pending = 0
  /\ intervalCount = 0
  /\ pc = [e \in ExecIds |-> "none"]
  /\ outcome = [e \in ExecIds |-> "none"]
  /\ taskResultWaiters = [j \in Jobs |-> NoExec]
  /\ timeout = [e \in ExecIds |-> "none"]
  /\ armOrder = <<>>
  /\ reconciling = {}
  /\ statusUpdates = [j \in Jobs |->
       [pending |-> 0, running |-> 0, completed |-> 0, failed |-> 0]]
  /\ lastUpdate = NoUpdate
  /\ sentExecute = [e \in ExecIds |-> 0]
  /\ ended = [e \in ExecIds |-> 0]
  /\ logs = [e \in ExecIds |-> 0]
  /\ snapshot = [e \in ExecIds |-> 0]
  /\ inserted = {}
  /\ deleting = [j \in Jobs |-> "none"]

Init ==
  /\ now = 0
  /\ computed = NoCall
  /\ Constructed

\* ------------------------------------------------------------------ clock
Tick ==
  /\ now < MaxTime
  /\ now' = now + 1
  /\ UNCHANGED <<computed, snapshot, storeVars, schedVars, clients, serverVars, queueVars,
                 waitVars, eventVars>>

\* ---------------------------------------------------------------- scheduler
\* a validator that accepts every string
validateAny(cron) == cron = cron

\* cron.validate
validate(cron) == cron # Malformed

\* a removeTask that deletes the entry of the Map and leaves its timer alive
removeEntry(st, taskId) ==
  [jobs |-> st.jobs \ {taskId}, cronLive |-> st.cronLive]

\* TaskScheduler.removeTask on the timer Map: st = [jobs, cronLive]
removeTask(st, taskId) ==
  IF taskId \in st.jobs
  THEN [jobs |-> st.jobs \ {taskId},
        cronLive |-> [st.cronLive EXCEPT ![taskId] = @ - 1]]
  ELSE st

\* a scheduleTask that overwrites the entry of the Map and leaves its timer alive
scheduleTaskOver(st, task, cron) ==
  IF ~validate(cron) THEN removeTask(st, task)
  ELSE [jobs |-> st.jobs \cup {task},
        cronLive |-> [st.cronLive EXCEPT ![task] = @ + 1]]

\* TaskScheduler.scheduleTask on the timer Map: a timer already under the id is
\* destroyed first; a malformed expression ends the call there
scheduleTask(st, task, cron) ==
  LET cleared == removeTask(st, task)
  IN IF ~validate(cron) THEN cleared
     ELSE [jobs |-> cleared.jobs \cup {task},
           cronLive |-> [cleared.cronLive EXCEPT ![task] = @ + 1]]

\* updateNextRunTime as scheduleTask calls it, on the documents docs
updateNextRunTime(docs, task, cron) ==
  IF docs[task].doc = "stored" /\ validate(cron)
  THEN [docs EXCEPT ![task].nextRunAt = calculateNextRunTime(cron, now)]
  ELSE docs

RECURSIVE ScheduleAll(_, _, _)
ScheduleAll(st, tasks, cron) ==
  IF tasks = {} THEN st
  ELSE LET t == CHOOSE x \in tasks : \A y \in tasks : x <= y
       IN ScheduleAll(scheduleTask(st, t, cron[t]), tasks \ {t}, cron)

\* a reload that forgets the entries of the Map and leaves their timers alive
ForgetAll(st) ==
  [jobs |-> {}, cronLive |-> st.cronLive]

\* the forEach of loadTasks: destroy and delete every entry of the Map
DestroyAll(st) ==
  [jobs |-> {},
   cronLive |-> [j \in Jobs |-> IF j \in st.jobs THEN st.cronLive[j] - 1
                                ELSE st.cronLive[j]]]

IdleLoad == CHOOSE l \in LoadIds :
  loads[l].state = "idle" /\ \A m \in LoadIds : loads[m].state = "idle" => l <= m

\* loadTasks up to its await: find({enabled: true}) on the store as docs stands;
\* start and update tell which caller goes on after the call
LoadTasksRead(docs, start, update) ==
  /\ \E l \in LoadIds : loads[l].state = "idle"
  /\ LET found == {j \in Jobs : docs[j].doc = "stored" /\ docs[j].enabled}
     IN loads' = [loads EXCEPT ![IdleLoad] =
          [state |-> "read", tasks |-> found,
           cron |-> [j \in Jobs |-> IF j \in found THEN docs[j].cronExpression
                                    ELSE Malformed],
           failureCount |-> [j \in Jobs |-> IF j \in found THEN docs[j].failureCount
                                            ELSE 0],
           start |-> start, update |-> update]]

\* TaskScheduler.start
Start ==
  /\ IF isStarted
     THEN UNCHANGED loads
     ELSE LoadTasksRead(scheduled_tasks, TRUE, NoJob)
  /\ UNCHANGED <<now, computed, snapshot, storeVars, isStarted, jobs, cronLive, cronTask, inserted, deleting, clients, serverVars,
                 queueVars, waitVars, eventVars>>

\* taskController.toggleTask: the store update, then loadTasks up to its await
ToggleTask(j, enabled) ==
  LET docs == IF Stored(j) THEN [scheduled_tasks EXCEPT ![j].enabled = enabled]
              ELSE scheduled_tasks
  IN /\ scheduled_tasks' = docs
     /\ LoadTasksRead(docs, FALSE, NoJob)
     /\ UNCHANGED <<now, computed, snapshot, task_executions, ended, logs, isStarted, jobs, cronLive, cronTask, inserted,
                    deleting, clients, serverVars, queueVars, waitVars, eventVars>>

\* taskController.updateTask with a new cronExpression: an empty string passes the
\* validation of the request and is stored; then loadTasks up to its await
UpdateTask(j, cron) ==
  LET docs == [scheduled_tasks EXCEPT ![j].cronExpression = cron]
  IN /\ Stored(j)
     /\ scheduled_tasks' = docs
     /\ LoadTasksRead(docs, FALSE, j)
     /\ UNCHANGED <<now, computed, snapshot, task_executions, ended, logs, isStarted, jobs, cronLive, cronTask, inserted,
                    deleting, clients, serverVars, queueVars, waitVars, eventVars>>

\* loadTasks after its await: clear the Map, schedule what was read; then the rest
\* of the caller: start() sets isStarted, updateTask broadcasts the job as it reads
\* it, with the nextRunAt of before or after the write scheduleTask started
LoadTasksApply(l) ==
  LET call == loads[l]
      st == ScheduleAll(DestroyAll([jobs |-> jobs, cronLive |-> cronLive]),
                        call.tasks, call.cron)
      docs == [j \in Jobs |->
                 IF j \in call.tasks
                 THEN updateNextRunTime(scheduled_tasks, j, call.cron[j])[j]
                 ELSE scheduled_tasks[j]]
  IN /\ call.state = "read"
     /\ jobs' = st.jobs
     /\ cronLive' = st.cronLive
     /\ cronTask' = [j \in Jobs |->
          IF j \in call.tasks /\ validate(call.cron[j]) THEN call.failureCount[j]
          ELSE cronTask[j]]
     /\ scheduled_tasks' = docs
     /\ isStarted' = (isStarted \/ call.start)
     /\ loads' = [loads EXCEPT ![l] = IdleCall]
     /\ IF call.update # NoJob /\ Stored(call.update)
        THEN /\ statusUpdates' = Published(call.update, docs[call.update].status)
             /\ \E n \in {scheduled_tasks[call.update].nextRunAt,
                          docs[call.update].nextRunAt} :
                  lastUpdate' = [taskId |-> call.update,
                                 status |-> docs[call.update].status, nextRunAt |-> n,
                                 successCount |-> docs[call.update].successCount,
                                 failureCount |-> docs[call.update].failureCount]
        ELSE UNCHANGED eventVars
     /\ UNCHANGED <<now, computed, snapshot, task_executions, ended, logs, inserted, deleting, clients, serverVars, queueVars,
                    waitVars>>

\* a reload that clears the Map before it finds that its read has failed
LoadTasksFailClear(l) ==
  LET call == loads[l]
      st == DestroyAll([jobs |-> jobs, cronLive |-> cronLive])
  IN /\ call.state = "read"
     /\ jobs' = st.jobs
     /\ cronLive' = st.cronLive
     /\ isStarted' = (isStarted \/ call.start)
     /\ loads' = [loads EXCEPT ![l] = IdleCall]
     /\ UNCHANGED <<now, computed, snapshot, storeVars, cronTask, inserted, deleting, clients, serverVars,
                    queueVars, waitVars, eventVars>>

\* loadTasks when its find rejects: the catch block logs the error and the call
\* returns, with the Map as it was; start() then sets isStarted, updateTask reads
\* the job again and broadcasts it as it is in the store
LoadTasksFail(l) ==
  LET call == loads[l]
  IN /\ call.state = "read"
     /\ isStarted' = (isStarted \/ call.start)
     /\ loads' = [loads EXCEPT ![l] = IdleCall]
     /\ IF call.update # NoJob /\ Stored(call.update)
        THEN /\ statusUpdates' = Published(call.update, scheduled_tasks[call.update].status)
             /\ lastUpdate' = [taskId |-> call.update,
                               status |-> scheduled_tasks[call.update].status,
                               nextRunAt |-> scheduled_tasks[call.update].nextRunAt,
                               successCount |-> scheduled_tasks[call.update].successCount,
                               failureCount |-> scheduled_tasks[call.update].failureCount]
        ELSE UNCHANGED eventVars
     /\ UNCHANGED <<now, computed, snapshot, storeVars, jobs, cronLive, cronTask, inserted, deleting, clients,
                    serverVars, queueVars, waitVars>>

\* taskController.createTask up to the answer of insertOne: the request was
\* validated, the id is new
CreateTask(j, cron, enabled) ==
  /\ scheduled_tasks[j].doc = "none"
  /\ validate(cron)
  /\ scheduled_tasks' = [scheduled_tasks EXCEPT ![j] = NewTask(cron, enabled)]
  /\ inserted' = IF enabled THEN inserted \cup {[_id |-> j, cronExpression |-> cron]}
                 ELSE inserted
  /\ UNCHANGED <<now, computed, snapshot, task_executions, ended, logs, isStarted, jobs, cronLive, cronTask, loads, deleting,
                 clients, serverVars, queueVars, waitVars, eventVars>>

\* createTask after insertOne: scheduleTask(insertedTask)
CreateSchedule(t) ==
  /\ t \in inserted
  /\ LET st == scheduleTask([jobs |-> jobs, cronLive |-> cronLive], t._id,
                            t.cronExpression)
     IN /\ jobs' = st.jobs
        /\ cronLive' = st.cronLive
  /\ cronTask' = [cronTask EXCEPT ![t._id] = 0]
  /\ scheduled_tasks' = updateNextRunTime(scheduled_tasks, t._id, t.cronExpression)
  /\ inserted' = inserted \ {t}
  /\ UNCHANGED <<now, computed, snapshot, task_executions, ended, logs, isStarted, loads, deleting, clients, serverVars,
                 queueVars, waitVars, eventVars>>

\* taskController.deleteTask: the job was found, removeTask
DeleteRemove(j) ==
  /\ Stored(j)
  /\ deleting[j] = "none"
  /\ LET st == removeTask([jobs |-> jobs, cronLive |-> cronLive], j)
     IN /\ jobs' = st.jobs
        /\ cronLive' = st.cronLive
  /\ UNCHANGED cronTask
  /\ deleting' = [deleting EXCEPT ![j] = "removed"]
  /\ UNCHANGED <<now, computed, snapshot, storeVars, isStarted, loads, inserted, clients, serverVars, queueVars,
                 waitVars, eventVars>>

\* deleteTask: deleteMany on the Executions of the job
DeleteExecutions(j) ==
  /\ deleting[j] = "removed"
  /\ task_executions' = [e \in DOMAIN task_executions |->
       IF task_executions[e].taskId = j
       THEN [taskId |-> j, status |-> "deleted", error |-> "none",
             completedAt |-> NoTime]
       ELSE task_executions[e]]
  /\ deleting' = [deleting EXCEPT ![j] = "purged"]
  /\ UNCHANGED <<now, computed, snapshot, scheduled_tasks, ended, logs, isStarted, jobs, cronLive, cronTask, loads, inserted,
                 clients, serverVars, queueVars, waitVars, eventVars>>

\* deleteTask: deleteOne on the job
DeleteDoc(j) ==
  /\ deleting[j] = "purged"
  /\ scheduled_tasks' = [scheduled_tasks EXCEPT ![j] =
       [NoTask("deleted") EXCEPT !.cronExpression = scheduled_tasks[j].cronExpression]]
  /\ deleting' = [deleting EXCEPT ![j] = "none"]
  /\ UNCHANGED <<now, computed, snapshot, task_executions, ended, logs, isStarted, jobs, cronLive, cronTask, loads, inserted,
                 clients, serverVars, queueVars, waitVars, eventVars>>

\* ------------------------------------------------------------ worker channel
\* the sockets in WebSocketService.clients
Members == {c \in Conns : clients[c] \in {"open", "broken", "closing"}}

\* WebSocketService.start: a no-op when the server is already there
WsStart ==
  /\ wss' = TRUE
  /\ UNCHANGED <<now, computed, snapshot, storeVars, schedVars, clients, closeReason, unhandled, queueVars,
                 waitVars, eventVars>>

\* a 'connection' handler that checks the token after it has added the socket
RefuseLate(c, token) ==
  /\ wss
  /\ clients[c] = "absent"
  /\ token \in {"missing", "invalid"}
  /\ clients' = [clients EXCEPT ![c] = "closing"]
  /\ closeReason' = [closeReason EXCEPT ![c] =
       IF token = "missing" THEN "Unauthorized" ELSE "Invalid token"]
  /\ UNCHANGED <<now, computed, snapshot, storeVars, schedVars, wss, unhandled, queueVars, waitVars,
                 eventVars>>

\* WebSocketService 'connection' with no token or with a token verifyToken rejects:
\* ws.close(4401, reason) and return, before clients.add and ws.on('message')
Refuse(c, token) ==
  /\ wss
  /\ clients[c] = "absent"
  /\ token \in {"missing", "invalid"}
  /\ clients' = [clients EXCEPT ![c] = "refused"]
  /\ closeReason' = [closeReason EXCEPT ![c] =
       IF token = "missing" THEN "Unauthorized" ELSE "Invalid token"]
  /\ UNCHANGED <<now, computed, snapshot, storeVars, schedVars, wss, unhandled, queueVars, waitVars,
                 eventVars>>

\* WebSocketService 'connection' with a valid token: clients.add(ws), the
\* server:connected message, the message, close and error handlers
Connect(c) ==
  /\ wss
  /\ clients[c] = "absent"
  /\ clients' = [clients EXCEPT ![c] = "open"]
  /\ UNCHANGED <<now, computed, snapshot, storeVars, schedVars, serverVars, queueVars, waitVars, eventVars>>

\* a socket in readyState OPEN whose send throws from now on
Break(c) ==
  /\ clients[c] = "open"
  /\ clients' = [clients EXCEPT ![c] = "broken"]
  /\ UNCHANGED <<now, computed, snapshot, storeVars, schedVars, serverVars, queueVars, waitVars, eventVars>>

\* the socket leaves readyState OPEN before its 'close' event is delivered
Closing(c) ==
  /\ clients[c] \in {"open", "broken"}
  /\ clients' = [clients EXCEPT ![c] = "closing"]
  /\ UNCHANGED <<now, computed, snapshot, storeVars, schedVars, serverVars, queueVars, waitVars, eventVars>>

\* ws.on('error'): clients.delete(ws); the socket itself is not closed yet
SocketError(c) ==
  /\ c \in Members
  /\ clients' = [clients EXCEPT ![c] = "released"]
  /\ UNCHANGED <<now, computed, snapshot, storeVars, schedVars, serverVars, queueVars, waitVars, eventVars>>

\* the socket is gone: ws.on('close') runs clients.delete(ws) where the handler
\* was installed
Close(c) ==
  /\ clients[c] # "absent"
  /\ clients' = [clients EXCEPT ![c] = "absent"]
  /\ closeReason' = [closeReason EXCEPT ![c] = "none"]
  /\ UNCHANGED <<now, computed, snapshot, storeVars, schedVars, wss, unhandled, queueVars, waitVars,
                 eventVars>>

\* a stop that closes the sockets and the server and leaves the set as it is
WsStopKeep ==
  /\ IF wss
     THEN /\ clients' = [c \in Conns |-> IF c \in Members THEN "closing" ELSE clients[c]]
          /\ wss' = FALSE
     ELSE UNCHANGED <<clients, wss>>
  /\ UNCHANGED <<now, computed, snapshot, storeVars, schedVars, closeReason, unhandled, queueVars, waitVars,
                 eventVars>>

\* WebSocketService.stop: client.close() on every member, clients.clear(),
\* wss.close() and wss = null; a no-op when the server is not there
WsStop ==
  /\ IF wss
     THEN /\ clients' = [c \in Conns |-> IF c \in Members THEN "released" ELSE clients[c]]
          /\ wss' = FALSE
     ELSE UNCHANGED <<clients, wss>>
  /\ UNCHANGED <<now, computed, snapshot, storeVars, schedVars, closeReason, unhandled, queueVars, waitVars,
                 eventVars>>

getClientCount == Cardinality(Members)

\* client.readyState: 1 is OPEN, 2 is CLOSING
readyState(c) == IF clients[c] \in {"open", "broken"} THEN 1 ELSE 2

\* client.send(data) returns (TRUE) or throws (FALSE)
send(c) == clients[c] # "broken"

\* the sockets a broadcast delivers its message to
Delivered == {c \in Members : clients[c] = "open"}

RECURSIVE broadcastAll(_)
RECURSIVE broadcastTo(_)
\* a broadcast that counts a send before it is made
broadcastAll(cs) ==
  IF cs = {} THEN 0
  ELSE LET client == CHOOSE c \in cs : TRUE
       IN (IF readyState(client) = 1 THEN 1 ELSE 0) + broadcastAll(cs \ {client})

\* the forEach of WebSocketService.broadcast over the sockets cs: count++ after a
\* send that did not throw, on the sockets in readyState OPEN
broadcastTo(cs) ==
  IF cs = {} THEN 0
  ELSE LET client == CHOOSE c \in cs : TRUE
       IN (IF readyState(client) = 1 /\ send(client) THEN 1 ELSE 0)
            + broadcastTo(cs \ {client})

\* WebSocketService.broadcast: the number of sends that succeeded
broadcast == broadcastTo(Members)

\* ------------------------------------------------------------------ p-queue
\* a queue that lets one operation too many start
CanStartOffByOne(pend, count) == pend <= Concurrency /\ count < IntervalCap

\* PQueue: an operation may start when a slot and the interval allow it
CanStart(pend, count) == pend < Concurrency /\ count < IntervalCap

\* queue.add(fn): fn starts at once when it may, else it waits in order
QueueAdd(e) ==
  IF CanStart(pending, intervalCount)
  THEN /\ pending' = pending + 1
       /\ intervalCount' = intervalCount + 1
       /\ pc' = [pc EXCEPT ![e] = "started"]
       /\ UNCHANGED queue
  ELSE /\ queue' = Append(queue, e)
       /\ pc' = [pc EXCEPT ![e] = "queued"]
       /\ UNCHANGED <<pending, intervalCount>>

\* a queue that starts the operation submitted last
QueueDoneLast(e) ==
  /\ snapshot' = [snapshot EXCEPT ![e] = 0]
  /\ IF queue # <<>> /\ CanStart(pending - 1, intervalCount)
     THEN /\ pending' = pending
          /\ intervalCount' = intervalCount + 1
          /\ queue' = SubSeq(queue, 1, Len(queue) - 1)
          /\ pc' = [pc EXCEPT ![e] = "done", ![queue[Len(queue)]] = "started"]
     ELSE /\ pending' = pending - 1
          /\ pc' = [pc EXCEPT ![e] = "done"]
          /\ UNCHANGED <<queue, intervalCount>>

\* the promise of fn settles: the slot is freed and the next waiting operation
\* starts; the task object fn held is released with it
QueueDone(e) ==
  /\ snapshot' = [snapshot EXCEPT ![e] = 0]
  /\ IF queue # <<>> /\ CanStart(pending - 1, intervalCount)
     THEN /\ pending' = pending
          /\ intervalCount' = intervalCount + 1
          /\ queue' = Tail(queue)
          /\ pc' = [pc EXCEPT ![e] = "done", ![Head(queue)] = "started"]
     ELSE /\ pending' = pending - 1
          /\ pc' = [pc EXCEPT ![e] = "done"]
          /\ UNCHANGED <<queue, intervalCount>>

\* the interval of p-queue ends: the count restarts and waiting operations start
IntervalEnd ==
  /\ intervalCount > 0
  /\ LET n == Min(Len(queue), Min(Concurrency - pending, IntervalCap))
     IN /\ intervalCount' = n
        /\ pending' = pending + n
        /\ queue' = SubSeq(queue, n + 1, Len(queue))
        /\ pc' = [e \in ExecIds |->
             IF \E i \in 1..n : queue[i] = e THEN "started" ELSE pc[e]]
  /\ UNCHANGED <<now, computed, snapshot, storeVars, schedVars, clients, serverVars, waitVars, eventVars>>

\* ----------------------------------------------------------------- executor
\* a check that lets the run through when its store query fails
checkRunningTaskOpen(shop, type, excludeTaskId, dbError) ==
  /\ ~dbError
  /\ \E k \in Jobs : /\ Stored(k)
                      /\ shopId(k) = shop
                      /\ taskType(k) = type
                      /\ scheduled_tasks[k].status = "running"
                      /\ k # excludeTaskId

\* checkRunningTask: another scheduled task of the same shop and type is running;
\* a failing store query counts as a conflict
checkRunningTask(shop, type, excludeTaskId, dbError) ==
  \/ dbError
  \/ \E k \in Jobs : /\ Stored(k)
                      /\ shopId(k) = shop
                      /\ taskType(k) = type
                      /\ scheduled_tasks[k].status = "running"
                      /\ k # excludeTaskId

\* addExecutionLog: $push of n entries on the logs of Execution e (an update of a
\* deleted document matches nothing)
addExecutionLog(e, n) ==
  [logs EXCEPT ![e] = IF task_executions[e].status = "deleted" THEN @ ELSE @ + n]

\* the reconciliation writes: Execution e ends, job j counts it, the status goes out
\* (an update of a deleted document matches nothing)
EndExecution(e, st, err) ==
  IF task_executions[e].status = "deleted"
  THEN UNCHANGED <<task_executions, ended>>
  ELSE /\ task_executions' = [task_executions EXCEPT ![e] =
            [@ EXCEPT !.status = st, !.error = err, !.completedAt = now]]
       /\ ended' = [ended EXCEPT ![e] = @ + 1]

CountJob(j, st) ==
  IF ~Stored(j)
  THEN UNCHANGED scheduled_tasks
  ELSE scheduled_tasks' = [scheduled_tasks EXCEPT ![j] =
         [@ EXCEPT !.status = st,
                   !.nextRunAt = calculateNextRunTime(cronExpression(j), now),
                   !.successCount = IF st = "completed" THEN @ + 1 ELSE @,
                   !.failureCount = IF st = "failed" THEN @ + 1 ELSE @]]

\* a status update that carries the nextRunAt read before the write
PublishStale(j, st) ==
  /\ statusUpdates' = Published(j, st)
  /\ lastUpdate' = [taskId |-> j, status |-> st,
                    nextRunAt |-> scheduled_tasks[j].nextRunAt,
                    successCount |-> scheduled_tasks[j].successCount
                                       + (IF st = "completed" THEN 1 ELSE 0),
                    failureCount |-> scheduled_tasks[j].failureCount
                                       + (IF st = "failed" THEN 1 ELSE 0)]

\* the broadcast of the result callback: nextRunAt as computed for the write, the
\* counters of the document just read plus this result
Publish(j, st) ==
  /\ statusUpdates' = Published(j, st)
  /\ lastUpdate' = [taskId |-> j, status |-> st,
                    nextRunAt |-> calculateNextRunTime(cronExpression(j), now),
                    successCount |-> scheduled_tasks[j].successCount
                                       + (IF st = "completed" THEN 1 ELSE 0),
                    failureCount |-> scheduled_tasks[j].failureCount
                                       + (IF st = "failed" THEN 1 ELSE 0)]

\* a failure that is broadcast to nobody and not counted
PublishNoFailure(j, failureCount) ==
  /\ UNCHANGED statusUpdates
  /\ lastUpdate' = [taskId |-> j, status |-> "failed",
                    nextRunAt |-> calculateNextRunTime(cronExpression(j), now),
                    successCount |-> NoCount, failureCount |-> failureCount + 1]

\* the broadcast of a failure that has no result: the queue-time conflict and the
\* catch block count from the task object executeTask was given, the timeout from
\* the document it has just read; the message has no successCount
PublishFailure(j, failureCount) ==
  /\ statusUpdates' = Published(j, "failed")
  /\ lastUpdate' = [taskId |-> j, status |-> "failed",
                    nextRunAt |-> calculateNextRunTime(cronExpression(j), now),
                    successCount |-> NoCount, failureCount |-> failureCount + 1]

\* executeTask(task) up to queue.add; failureCount is the one of the task object
executeTask(j, dbError, failureCount) ==
  IF checkRunningTask(shopId(j), taskType(j), j, dbError)
  THEN UNCHANGED vars
  ELSE /\ Len(task_executions) < MaxExec
       /\ LET e == Len(task_executions) + 1
          IN /\ task_executions' = Append(task_executions,
                  [taskId |-> j, status |-> "running", error |-> "none",
                   completedAt |-> NoTime])
             /\ snapshot' = [snapshot EXCEPT ![e] = failureCount]
             /\ QueueAdd(e)
       /\ IF ~Stored(j)
          THEN UNCHANGED scheduled_tasks
          ELSE scheduled_tasks' = [scheduled_tasks EXCEPT ![j] =
                 [@ EXCEPT !.status = "running", !.lastRunAt = now, !.runCount = @ + 1]]
       /\ statusUpdates' = Published(j, "running")
       /\ lastUpdate' = [taskId |-> j, status |-> "running", nextRunAt |-> NoTime,
                         successCount |-> NoCount, failureCount |-> NoCount]
       /\ UNCHANGED <<now, computed, schedVars, clients, serverVars, waitVars, ended, logs>>

\* a timer that is gone once it has fired
CronFireOnce(j) ==
  /\ cronLive[j] > 0
  /\ cronLive' = [cronLive EXCEPT ![j] = @ - 1]
  /\ jobs' = jobs \ {j}
  /\ UNCHANGED cronTask
  /\ UNCHANGED <<now, computed, snapshot, storeVars, isStarted, loads, inserted, deleting, clients, serverVars,
                 queueVars, waitVars, eventVars>>

\* the callback of cron.schedule
CronFire(j) ==
  /\ cronLive[j] > 0
  /\ \E dbError \in BOOLEAN : executeTask(j, dbError, cronTask[j])

\* TaskScheduler.executeTaskNow: the job is read from the store; an id that is
\* not there ends the call
executeTaskNow(j) ==
  IF ~Stored(j) THEN UNCHANGED vars
  ELSE \E dbError \in BOOLEAN : executeTask(j, dbError, scheduled_tasks[j].failureCount)

\* the catch block of the queued function, entered with the rejection reason after
\* the function has appended logged entries: with no waiter under the job id it
\* goes on to reconcile, else it drops that waiter, logs the error and rethrows
CatchEntry(e, reason, logged) ==
  LET j == task_executions[e].taskId
      waiter == taskResultWaiters[j]
  IN /\ outcome' = [outcome EXCEPT ![e] = reason]
     /\ IF waiter = NoExec
        THEN /\ pc' = [pc EXCEPT ![e] = "catchUpdate"]
             /\ logs' = addExecutionLog(e, logged)
             /\ UNCHANGED <<queue, pending, intervalCount, taskResultWaiters, timeout,
                            armOrder, snapshot>>
        ELSE /\ timeout' = [timeout EXCEPT ![waiter] = IF @ = "armed" THEN "cleared" ELSE @]
             /\ armOrder' = Remove(armOrder, waiter)
             /\ taskResultWaiters' = [taskResultWaiters EXCEPT ![j] = NoExec]
             /\ logs' = addExecutionLog(e, logged + 1)
             /\ QueueDone(e)

\* a dispatch that keeps its waiter and its timer whatever the number of sends
executeTaskInClientKeep(e, j) ==
  /\ taskResultWaiters' = [taskResultWaiters EXCEPT ![j] = e]
  /\ timeout' = [timeout EXCEPT ![e] = "armed"]
  /\ armOrder' = Append(armOrder, e)
  /\ sentExecute' = [sentExecute EXCEPT ![e] = broadcast]
  /\ pc' = [pc EXCEPT ![e] = "waiting"]
  /\ UNCHANGED outcome

\* executeTaskInClient once a client is counted: the timer is set and the waiter
\* stored under the job id, then sendTaskExecute broadcasts task:execute; with no
\* send counted the timer is cleared, the waiter deleted and the promise rejected,
\* which the catch block of the queued function, finding no waiter, reconciles
executeTaskInClient(e, j) ==
  IF broadcast = 0
  THEN /\ taskResultWaiters' = [taskResultWaiters EXCEPT ![j] = NoExec]
       /\ timeout' = [timeout EXCEPT ![e] = "cleared"]
       /\ outcome' = [outcome EXCEPT ![e] = "WorkerPush"]
       /\ pc' = [pc EXCEPT ![e] = "catchUpdate"]
       /\ UNCHANGED <<sentExecute, armOrder>>
  ELSE /\ taskResultWaiters' = [taskResultWaiters EXCEPT ![j] = e]
       /\ timeout' = [timeout EXCEPT ![e] = "armed"]
       /\ armOrder' = Append(armOrder, e)
       /\ sentExecute' = [sentExecute EXCEPT ![e] = broadcast]
       /\ pc' = [pc EXCEPT ![e] = "waiting"]
       /\ UNCHANGED outcome

\* the queued function from its start to the end of executeTaskInClient's setup
QueueRun(e, dbError, shopFound) ==
  /\ pc[e] = "started"
  /\ LET j == task_executions[e].taskId
     IN IF checkRunningTask(shopId(j), taskType(j), j, dbError)
        THEN /\ EndExecution(e, "failed", "ConcurrentExecution")
             /\ CountJob(j, "failed")
             /\ PublishFailure(j, snapshot[e])
             /\ CatchEntry(e, "ConcurrentExecution", 0)
             /\ UNCHANGED <<reconciling, sentExecute>>
        ELSE IF ~shopFound
        THEN /\ CatchEntry(e, "ShopMissing", 0)
             /\ UNCHANGED <<scheduled_tasks, task_executions, ended, eventVars,
                            reconciling, sentExecute>>
        ELSE IF getClientCount = 0
        THEN /\ CatchEntry(e, "NoWorkerAvailable", 1)
             /\ UNCHANGED <<scheduled_tasks, task_executions, ended, eventVars,
                            reconciling, sentExecute>>
        ELSE /\ executeTaskInClient(e, j)
             /\ logs' = addExecutionLog(e, 1)
             /\ UNCHANGED <<scheduled_tasks, task_executions, ended, eventVars,
                            reconciling, queue, pending, intervalCount, snapshot>>
  /\ UNCHANGED <<now, computed, schedVars, clients, serverVars>>

\* the catch block without a waiter: "not pushed", so it reconciles the failure,
\* logs the error and rethrows
CatchUpdate(e) ==
  /\ pc[e] = "catchUpdate"
  /\ EndExecution(e, "failed", outcome[e])
  /\ CountJob(task_executions[e].taskId, "failed")
  /\ PublishFailure(task_executions[e].taskId, snapshot[e])
  /\ logs' = addExecutionLog(e, 1)
  /\ QueueDone(e)
  /\ UNCHANGED <<now, computed, schedVars, clients, serverVars, waitVars>>

\* a result callback that, finding no waiter, reconciles the latest run of the job
TaskResultAnyway(c, j, code) ==
  /\ clients[c] \notin {"absent", "refused"}
  /\ LET waiter == taskResultWaiters[j]
         runs == {e \in 1..Len(task_executions) : task_executions[e].taskId = j}
     IN IF waiter = NoExec
        THEN /\ UNCHANGED <<taskResultWaiters, timeout, armOrder>>
             /\ IF runs = {}
                THEN UNCHANGED reconciling
                ELSE LET last == CHOOSE e \in runs : \A d \in runs : d <= e
                     IN reconciling' = reconciling \cup
                          {[kind |-> "result", taskId |-> j, executionId |-> last,
                            settle |-> last, code |-> code]}
        ELSE /\ timeout' = [timeout EXCEPT ![waiter] = IF @ = "armed" THEN "cleared" ELSE @]
             /\ armOrder' = Remove(armOrder, waiter)
             /\ taskResultWaiters' = [taskResultWaiters EXCEPT ![j] = NoExec]
             /\ reconciling' = reconciling \cup
                  {[kind |-> "result", taskId |-> j, executionId |-> waiter,
                    settle |-> waiter, code |-> code]}
  /\ UNCHANGED <<now, computed, snapshot, storeVars, schedVars, clients, serverVars, queueVars, eventVars, outcome,
                 sentExecute>>

\* a result callback that clears the timer and leaves the waiter in the map
TaskResultKeepWaiter(c, j, code) ==
  /\ clients[c] \notin {"absent", "refused"}
  /\ LET waiter == taskResultWaiters[j]
     IN IF waiter = NoExec
        THEN UNCHANGED <<timeout, armOrder, reconciling>>
        ELSE /\ timeout' = [timeout EXCEPT ![waiter] = IF @ = "armed" THEN "cleared" ELSE @]
             /\ armOrder' = Remove(armOrder, waiter)
             /\ reconciling' = reconciling \cup
                  {[kind |-> "result", taskId |-> j, executionId |-> waiter,
                    settle |-> waiter, code |-> code]}
  /\ UNCHANGED <<now, computed, snapshot, storeVars, schedVars, clients, serverVars, queueVars, eventVars, outcome,
                 sentExecute, taskResultWaiters>>

\* a result callback that takes the waiter and leaves its timer running
TaskResultKeepTimer(c, j, code) ==
  /\ clients[c] \notin {"absent", "refused"}
  /\ LET waiter == taskResultWaiters[j]
     IN IF waiter = NoExec
        THEN UNCHANGED <<taskResultWaiters, reconciling>>
        ELSE /\ taskResultWaiters' = [taskResultWaiters EXCEPT ![j] = NoExec]
             /\ reconciling' = reconciling \cup
                  {[kind |-> "result", taskId |-> j, executionId |-> waiter,
                    settle |-> waiter, code |-> code]}
  /\ UNCHANGED <<now, computed, snapshot, storeVars, schedVars, clients, serverVars, queueVars, eventVars, outcome,
                 sentExecute, timeout, armOrder>>

\* handleMessage 'task:result' -> the callback of setTaskResultCallback, up to its
\* first await: the waiter is taken and its timer cleared
TaskResult(c, j, code) ==
  /\ clients[c] \notin {"absent", "refused"}
  /\ LET waiter == taskResultWaiters[j]
     IN IF waiter = NoExec
        THEN UNCHANGED <<taskResultWaiters, timeout, armOrder, reconciling>>
        ELSE /\ timeout' = [timeout EXCEPT ![waiter] = IF @ = "armed" THEN "cleared" ELSE @]
             /\ armOrder' = Remove(armOrder, waiter)
             /\ taskResultWaiters' = [taskResultWaiters EXCEPT ![j] = NoExec]
             /\ reconciling' = reconciling \cup
                  {[kind |-> "result", taskId |-> j, executionId |-> waiter,
                    settle |-> waiter, code |-> code]}
  /\ UNCHANGED <<now, computed, snapshot, storeVars, schedVars, clients, serverVars, queueVars, eventVars, outcome,
                 sentExecute>>

\* the 'message' handler with text JSON.parse rejects (caught and logged), or
\* handleMessage with client:ready or with a type it does not know
IgnoredMessage(c) ==
  /\ clients[c] \notin {"absent", "refused"}
  /\ UNCHANGED vars

\* task:result with no data: the destructuring at the head of the callback throws
\* inside the async function, and handleMessage drops the promise it returns
DataMissing(c) ==
  /\ clients[c] \notin {"absent", "refused"}
  /\ unhandled' = TRUE
  /\ UNCHANGED <<now, computed, snapshot, storeVars, schedVars, clients, wss, closeReason, queueVars,
                 waitVars, eventVars>>

\* task:result whose data names job j and has no result: the waiter is taken and
\* its timer cleared, result.code throws inside the try before any write (caught)
\* and again after it, before resolve or reject
MalformedResult(c, j) ==
  /\ clients[c] \notin {"absent", "refused"}
  /\ LET waiter == taskResultWaiters[j]
     IN IF waiter = NoExec
        THEN UNCHANGED <<taskResultWaiters, timeout, armOrder, unhandled>>
        ELSE /\ timeout' = [timeout EXCEPT ![waiter] = IF @ = "armed" THEN "cleared" ELSE @]
             /\ armOrder' = Remove(armOrder, waiter)
             /\ taskResultWaiters' = [taskResultWaiters EXCEPT ![j] = NoExec]
             /\ unhandled' = TRUE
  /\ UNCHANGED <<now, computed, snapshot, storeVars, schedVars, clients, wss, closeReason, queueVars,
                 eventVars, outcome, reconciling, sentExecute>>

\* a timer callback that reconciles its own run without looking for the waiter
TimeoutFireAnyway ==
  /\ armOrder # <<>>
  /\ LET e == Head(armOrder)
         j == task_executions[e].taskId
     IN /\ timeout' = [timeout EXCEPT ![e] = "fired"]
        /\ armOrder' = Tail(armOrder)
        /\ taskResultWaiters' = [taskResultWaiters EXCEPT ![j] = NoExec]
        /\ reconciling' = reconciling \cup
             {[kind |-> "timeout", taskId |-> j, executionId |-> e,
               settle |-> e, code |-> 0]}
  /\ UNCHANGED <<now, computed, snapshot, storeVars, schedVars, clients, serverVars, queueVars, eventVars, outcome,
                 sentExecute>>

\* the setTimeout callback of executeTaskInClient, up to its await: the earliest
\* armed timer fires and takes whatever waiter is under its job id
TimeoutFire ==
  /\ armOrder # <<>>
  /\ LET e == Head(armOrder)
         j == task_executions[e].taskId
         waiter == taskResultWaiters[j]
     IN /\ timeout' = [timeout EXCEPT ![e] = "fired"]
        /\ armOrder' = Tail(armOrder)
        /\ IF waiter = NoExec
           THEN UNCHANGED <<taskResultWaiters, reconciling>>
           ELSE /\ taskResultWaiters' = [taskResultWaiters EXCEPT ![j] = NoExec]
                /\ reconciling' = reconciling \cup
                     {[kind |-> "timeout", taskId |-> j, executionId |-> waiter,
                       settle |-> e, code |-> 0]}
  /\ UNCHANGED <<now, computed, snapshot, storeVars, schedVars, clients, serverVars, queueVars, eventVars, outcome,
                 sentExecute>>

\* the rest of the result callback / of the timeout callback (updateTaskTimeout):
\* the store writes, the broadcast, then resolve or reject of the parked promise
Reconcile(r) ==
  LET st == IF r.kind = "result" /\ r.code = 200 THEN "completed" ELSE "failed"
      err == IF st = "completed" THEN "none"
             ELSE IF r.kind = "timeout" THEN "ExecutionTimeout" ELSE "ResultFailed"
  IN /\ r \in reconciling
     /\ reconciling' = reconciling \ {r}
     /\ EndExecution(r.executionId, st, err)
     /\ CountJob(r.taskId, st)
     /\ IF ~Stored(r.taskId) THEN UNCHANGED eventVars
        ELSE IF r.kind = "result" THEN Publish(r.taskId, st)
        ELSE PublishFailure(r.taskId, scheduled_tasks[r.taskId].failureCount)
     /\ IF pc[r.settle] # "waiting"
        THEN UNCHANGED <<queueVars, outcome, taskResultWaiters, timeout, armOrder, logs,
                         snapshot>>
        ELSE IF st = "completed"
        THEN /\ outcome' = [outcome EXCEPT ![r.settle] = "resolved"]
             /\ logs' = addExecutionLog(r.settle, 1)
             /\ QueueDone(r.settle)
             /\ UNCHANGED <<taskResultWaiters, timeout, armOrder>>
        ELSE CatchEntry(r.settle, err, 0)
     /\ UNCHANGED <<now, computed, schedVars, clients, serverVars, sentExecute>>

\* ------------------------------------------------------------ specification
Next ==
  \/ Tick
  \/ Start
  \/ \E j \in Jobs, enabled \in BOOLEAN : ToggleTask(j, enabled)
  \/ \E l \in LoadIds : LoadTasksApply(l)
  \/ WsStart
  \/ WsStop
  \/ \E c \in Conns, token \in {"missing", "invalid"} : Refuse(c, token)
  \/ \E c \in Conns : Connect(c)
  \/ \E c \in Conns : Break(c)
  \/ \E c \in Conns : SocketError(c)
  \/ \E c \in Conns : Closing(c)
  \/ \E c \in Conns : Close(c)
  \/ \E j \in Jobs : CronFire(j)
  \/ \E j \in Jobs : executeTaskNow(j)
  \/ IntervalEnd
  \/ \E e \in ExecIds, dbError \in BOOLEAN, shopFound \in BOOLEAN :
       QueueRun(e, dbError, shopFound)
  \/ \E e \in ExecIds : CatchUpdate(e)
  \/ \E c \in Conns, j \in Jobs, code \in {200, 500} : TaskResult(c, j, code)
  \/ \E c \in Conns : IgnoredMessage(c)
  \/ \E c \in Conns : DataMissing(c)
  \/ \E c \in Conns, j \in Jobs : MalformedResult(c, j)
  \/ TimeoutFire
  \/ \E r \in reconciling : Reconcile(r)

Spec == Init /\ [][Next]_vars

\* The executor and the worker channel on their own: manual triggers (at most
\* MaxRuns of them admitted), workers that connect, stall and disconnect, results
\* and deadlines. The scheduler stays as constructed.
ExecNext ==
  \/ WsStart
  \/ \E c \in Workers : Connect(c)
  \/ \E c \in Workers : Closing(c)
  \/ \E c \in Workers : Close(c)
  \/ \E j \in Jobs : Len(task_executions) < MaxRuns /\ executeTaskNow(j)
  \/ \E e \in ExecIds, dbError \in BOOLEAN, shopFound \in BOOLEAN :
       QueueRun(e, dbError, shopFound)
  \/ \E e \in ExecIds : CatchUpdate(e)
  \/ \E c \in Workers, j \in Jobs, code \in {200, 500} : TaskResult(c, j, code)
  \/ TimeoutFire
  \/ \E r \in reconciling : Reconcile(r)

ExecSpec == Init /\ [][ExecNext]_vars

\* The event loop runs every continuation whose store round trip has returned and
\* every timer whose deadline has passed; triggers, workers and their results are
\* under no obligation.
ExecFairness ==
  /\ \A e \in ExecIds :
       WF_vars(\E dbError \in BOOLEAN, shopFound \in BOOLEAN : QueueRun(e, dbError, shopFound))
  /\ \A e \in ExecIds : WF_vars(CatchUpdate(e))
  /\ WF_vars(TimeoutFire)
  /\ WF_vars(\E r \in reconciling : Reconcile(r))

ExecFairSpec == ExecSpec /\ ExecFairness

\* The scheduler on its own: start, enable/disable with the reload that follows,
\* reloads that finish in any order, cron timers that fire (at most MaxFires runs
\* admitted) and, with no worker connected, runs that fail at dispatch.
SchedNext ==
  \/ Tick
  \/ Start
  \/ \E j \in Jobs, enabled \in BOOLEAN : ToggleTask(j, enabled)
  \/ \E l \in LoadIds : LoadTasksApply(l)
  \/ \E j \in Jobs : Len(task_executions) < MaxFires /\ CronFire(j)
  \/ \E e \in ExecIds : QueueRun(e, FALSE, TRUE)
  \/ \E e \in ExecIds : CatchUpdate(e)

SchedSpec == Init /\ [][SchedNext]_vars

\* The timer Map under every operation that touches it: start and reloads, job 1
\* enabled and disabled, job 2 updated (at most MaxUpdates broadcasts), job 3
\* created, jobs 1 and 3 deleted.
TimerNext ==
  \/ Start
  \/ \E enabled \in BOOLEAN : ToggleTask(1, enabled)
  \/ \E cron \in {Malformed, 2} :
       statusUpdates[2][scheduled_tasks[2].status] < MaxUpdates /\ UpdateTask(2, cron)
  \/ \E l \in LoadIds : LoadTasksApply(l)
  \/ \E enabled \in BOOLEAN : CreateTask(3, 1, enabled)
  \/ \E t \in inserted : CreateSchedule(t)
  \/ \E j \in {1, 3} : DeleteRemove(j)
  \/ \E j \in Jobs : DeleteExecutions(j)
  \/ \E j \in Jobs : DeleteDoc(j)

TimerSpec == Init /\ [][TimerNext]_vars

\* Deleting jobs while timers fire: start and reloads, job 2 enabled and disabled,
\* jobs deleted, timers that fire (at most MaxFires runs admitted) and, with no
\* worker connected, the first run failing at dispatch.
RemoveNext ==
  \/ Start
  \/ \E enabled \in BOOLEAN : ToggleTask(2, enabled)
  \/ \E l \in LoadIds : LoadTasksApply(l)
  \/ \E j \in Jobs : DeleteRemove(j)
  \/ \E j \in Jobs : DeleteExecutions(j)
  \/ \E j \in Jobs : DeleteDoc(j)
  \/ \E j \in Jobs : Len(task_executions) < MaxFires /\ CronFire(j)
  \/ QueueRun(1, FALSE, TRUE)
  \/ CatchUpdate(1)

RemoveSpec == Init /\ [][RemoveNext]_vars

\* The worker channel with one job run by hand: the server starts and stops,
\* sockets are refused, accepted, break, fail and close, and the accepted ones send
\* results and other messages.
ChannelNext ==
  \/ WsStart
  \/ WsStop
  \/ \E c \in Conns, token \in {"missing", "invalid"} : Refuse(c, token)
  \/ \E c \in Conns : Connect(c)
  \/ \E c \in Conns : Break(c)
  \/ \E c \in Conns : Closing(c)
  \/ \E c \in Conns : SocketError(c)
  \/ \E c \in Conns : Close(c)
  \/ Len(task_executions) < MaxFires /\ executeTaskNow(1)
  \/ \E e \in ExecIds : QueueRun(e, FALSE, TRUE)
  \/ \E e \in ExecIds : CatchUpdate(e)
  \/ \E c \in Conns, code \in {200, 500} : TaskResult(c, 1, code)
  \/ \E c \in Conns : IgnoredMessage(c)
  \/ \E c \in Conns : DataMissing(c)
  \/ \E c \in Conns : MalformedResult(c, 1)
  \/ TimeoutFire
  \/ \E r \in reconciling : Reconcile(r)

ChannelSpec == Init /\ [][ChannelNext]_vars

\* Timers that fire on a started scheduler (at most MaxRuns runs admitted) and
\* runs that end in every way: rejected, shop gone, no worker, result, timeout.
FireNext ==
  \/ WsStart
  \/ Start
  \/ \E l \in LoadIds : LoadTasksApply(l)
  \/ \E c \in Workers : Connect(c)
  \/ \E c \in Workers : Close(c)
  \/ \E j \in Jobs : Len(task_executions) < MaxRuns /\ CronFire(j)
  \/ \E e \in ExecIds, dbError \in BOOLEAN, shopFound \in BOOLEAN :
       QueueRun(e, dbError, shopFound)
  \/ \E e \in ExecIds : CatchUpdate(e)
  \/ \E c \in Workers, j \in Jobs, code \in {200, 500} : TaskResult(c, j, code)
  \/ TimeoutFire
  \/ \E r \in reconciling : Reconcile(r)

FireSpec == Init /\ [][FireNext]_vars

\* The admission queue under load: up to MaxAdmitted runs of one job, enough to fill
\* every slot of the queue and leave one operation waiting.
QueueNext ==
  \/ WsStart
  \/ \E c \in Workers : Connect(c)
  \/ \E c \in Workers : Close(c)
  \/ /\ Len(task_executions) < MaxAdmitted
     /\ \E dbError \in BOOLEAN : executeTask(1, dbError, scheduled_tasks[1].failureCount)
  \/ IntervalEnd
  \/ \E e \in ExecIds : QueueRun(e, FALSE, TRUE)
  \/ \E e \in ExecIds : CatchUpdate(e)
  \/ \E c \in Workers, code \in {200, 500} : TaskResult(c, 1, code)
  \/ \E r \in reconciling : Reconcile(r)

QueueSpec == Init /\ [][QueueNext]_vars

\* The order of the queue: MaxExec runs of one job, so that two operations wait
\* behind a full queue; no worker is connected, so every run that starts fails at
\* dispatch and frees its slot.
FifoNext ==
  \/ executeTask(1, FALSE, scheduled_tasks[1].failureCount)
  \/ IntervalEnd
  \/ \E e \in ExecIds : QueueRun(e, FALSE, TRUE)
  \/ \E e \in ExecIds : CatchUpdate(e)

FifoSpec == Init /\ [][FifoNext]_vars

\* Reads of the store that fail: start and enable/disable with the reload that
\* follows, each reload either scheduling what it read or failing on its read.
LoadFailNext ==
  \/ Tick
  \/ Start
  \/ \E j \in Jobs, enabled \in BOOLEAN : ToggleTask(j, enabled)
  \/ \E l \in LoadIds : LoadTasksApply(l)
  \/ \E l \in LoadIds : LoadTasksFail(l)

LoadFailSpec == Init /\ [][LoadFailNext]_vars

\* calculateNextRunTime on its own: the expression and fromDate are drawn from
\* bounded sets, the function is called twice on them, and the clock may move
\* before and between the calls.
CalcInputs ==
  [cron : CronExpressions \cup {Malformed}, fromDate : 0..MaxFrom, result : {NoTime},
   again : {NoTime}]

CalcInit ==
  /\ now \in 0..MaxTime
  /\ computed \in CalcInputs
  /\ Constructed

Compute ==
  /\ computed.result = NoTime
  /\ computed' = [computed EXCEPT !.result = calculateNextRunTime(computed.cron, computed.fromDate)]
  /\ UNCHANGED <<now, snapshot, storeVars, schedVars, clients, serverVars, queueVars,
                 waitVars, eventVars>>

ComputeAgain ==
  /\ computed.result # NoTime
  /\ computed.again = NoTime
  /\ computed' = [computed EXCEPT !.again = calculateNextRunTime(computed.cron, computed.fromDate)]
  /\ UNCHANGED <<now, snapshot, storeVars, schedVars, clients, serverVars, queueVars,
                 waitVars, eventVars>>

CalcNext ==
  \/ Tick
  \/ Compute
  \/ ComputeAgain

CalcSpec == CalcInit /\ [][CalcNext]_vars

\* ------------------------------------------------------------------ claims
Executions == 1..Len(task_executions)
ExecutionsOf(j) == {e \in Executions : task_executions[e].taskId = j}
Running(e) == e \in Executions /\ task_executions[e].status = "running"
InFlight == {e \in ExecIds : pc[e] \in {"started", "waiting", "catchUpdate"}}

\* an Execution of the (shopId, taskType) pair of job j is running
RunningFor(j) ==
  \E e \in Executions :
    /\ Running(e)
    /\ shopId(task_executions[e].taskId) = shopId(j)
    /\ taskType(task_executions[e].taskId) = taskType(j)

\* C1: executeTask on a job while an Execution of its (shopId, taskType) pair is
\* running is rejected: no Execution is created, runCount stays, nothing is queued,
\* started or pushed.
C1_RejectedWhileRunning ==
  [][\A j \in Jobs :
       (RunningFor(j) /\ \E dbError \in BOOLEAN, failureCount \in 0..(2 * MaxExec) :
                            executeTask(j, dbError, failureCount))
       => /\ task_executions' = task_executions
          /\ scheduled_tasks'[j].runCount = scheduled_tasks[j].runCount
          /\ UNCHANGED <<queue, pending, pc, sentExecute>>]_vars

\* C2: executeTaskNow on job A while A has status running and its first run is not
\* reconciled is rejected, and no second Execution of A is created.
C2_SecondExecuteNowRejected ==
  [][\A j \in Jobs :
       (/\ scheduled_tasks[j].status = "running"
        /\ \E e \in ExecutionsOf(j) : Running(e) /\ pc[e] # "done"
        /\ executeTaskNow(j))
       => ExecutionsOf(j)' = ExecutionsOf(j)]_vars

\* C3: at most Concurrency operations of the queue are in flight; an operation
\* submitted while Concurrency are in flight waits in the queue; an operation that
\* waits is not pushed, and while every slot is taken it leaves the queue only in a
\* step in which an operation in flight finishes.
C3_Ceiling ==
  /\ Cardinality(InFlight) <= Concurrency
  /\ Cardinality(InFlight) = pending
  /\ \A e \in ExecIds : pc[e] = "queued" =>
       /\ \E i \in 1..Len(queue) : queue[i] = e
       /\ sentExecute[e] = 0
       /\ \A j \in Jobs : taskResultWaiters[j] # e

C3_WaitsForSlot ==
  /\ \A e \in ExecIds :
       (pc[e] = "none" /\ pc'[e] # "none" /\ Cardinality(InFlight) = Concurrency)
       => pc'[e] = "queued"
  /\ \A e \in ExecIds :
       (pc[e] = "queued" /\ pc'[e] # "queued" /\ Cardinality(InFlight) = Concurrency)
       => \E f \in InFlight : pc'[f] = "done"

C3_ConcurrencyCeiling == []C3_Ceiling /\ [][C3_WaitsForSlot]_vars

C3_Witness ==
  /\ Cardinality(InFlight) = Concurrency
  /\ \A e \in InFlight : pc[e] = "waiting" /\ sentExecute[e] > 0
  /\ \E e \in ExecIds : pc[e] = "queued" /\ queue = <<e>>

\* C4: an Execution marked with the timeout error was marked failed exactly once,
\* after the timer of its own dispatch fired, and its waiter entry is gone.
C4_TimeoutOnce ==
  \A e \in Executions :
    task_executions[e].error = "ExecutionTimeout" =>
      /\ task_executions[e].status = "failed"
      /\ ended[e] = 1
      /\ timeout[e] = "fired"
      /\ taskResultWaiters[task_executions[e].taskId] # e

\* C5: the dispatch step with no worker connected sends nothing, leaves no waiter
\* entry and no armed timer, and the Execution ends failed without a timeout.
C5_NoWorkerStep ==
  \A e \in ExecIds :
    (getClientCount = 0 /\ QueueRun(e, FALSE, TRUE)) =>
      /\ sentExecute' = sentExecute
      /\ taskResultWaiters'[task_executions[e].taskId] = NoExec
      /\ timeout'[e] # "armed"
      /\ outcome'[e] = "NoWorkerAvailable"

C5_NoWorkerEnds ==
  \A e \in Executions :
    (outcome[e] = "NoWorkerAvailable" /\ pc[e] = "done") =>
      /\ task_executions[e].status = "failed"
      /\ task_executions[e].error = "NoWorkerAvailable"
      /\ timeout[e] = "none"

C5_NoWorkerFailsFast == [][C5_NoWorkerStep]_vars /\ []C5_NoWorkerEnds

\* C6: a task:result with code 200 for a job with a waiter removes the waiter; its
\* reconciliation resolves the parked caller, marks the Execution and the job
\* completed, adds exactly 1 to successCount and nothing to failureCount, and
\* broadcasts a status update that carries the nextRunAt just persisted.
C6_ResultTaken ==
  \A c \in Conns, j \in Jobs :
    (taskResultWaiters[j] # NoExec /\ TaskResult(c, j, 200)) =>
      /\ taskResultWaiters'[j] = NoExec
      /\ \E r \in reconciling' \ reconciling :
           /\ r.taskId = j /\ r.code = 200
           /\ r.executionId = taskResultWaiters[j] /\ r.settle = taskResultWaiters[j]

C6_ResultReconciled ==
  \A r \in reconciling :
    (r.kind = "result" /\ r.code = 200 /\ r \notin reconciling') =>
      LET j == r.taskId
      IN /\ pc[r.settle] = "waiting" /\ pc'[r.settle] = "done"
         /\ outcome'[r.settle] = "resolved"
         /\ task_executions'[r.executionId].status = "completed"
         /\ task_executions'[r.executionId].error = "none"
         /\ scheduled_tasks'[j].status = "completed"
         /\ scheduled_tasks'[j].successCount = scheduled_tasks[j].successCount + 1
         /\ scheduled_tasks'[j].failureCount = scheduled_tasks[j].failureCount
         /\ taskResultWaiters'[j] # r.executionId
         /\ statusUpdates'[j].completed = statusUpdates[j].completed + 1
         /\ lastUpdate' = [taskId |-> j, status |-> "completed",
                           nextRunAt |-> scheduled_tasks'[j].nextRunAt,
                           successCount |-> scheduled_tasks'[j].successCount,
                           failureCount |-> scheduled_tasks'[j].failureCount]
         /\ lastUpdate'.nextRunAt > now

C6_Success200 == [][C6_ResultTaken /\ C6_ResultReconciled]_vars

C6_Witness ==
  \E e \in Executions :
    /\ outcome[e] = "resolved"
    /\ task_executions[e].status = "completed"
    /\ scheduled_tasks[task_executions[e].taskId].successCount = 1
    /\ lastUpdate.status = "completed"

\* C7: once no run of a job is in progress, its successCount and failureCount add
\* up to the number of its Executions: each Execution was counted once, by one of
\* the two counters.
Quiescent(j) ==
  /\ \A e \in ExecutionsOf(j) : pc[e] = "done"
  /\ \A r \in reconciling : r.taskId # j

C7_CountedOnce ==
  \A j \in Jobs :
    Quiescent(j) =>
      scheduled_tasks[j].successCount + scheduled_tasks[j].failureCount
        = Cardinality(ExecutionsOf(j))

\* C8: every Execution that is running eventually is not, and by then its job has
\* left status running at some point.
C8_NoJobStuck ==
  \A e \in ExecIds : Running(e) ~> (e \in Executions /\ ~Running(e))

\* C9: a waiter entry is registered only where none is present, and an entry is
\* removed only by a result or timeout handler that goes on to resume the promise
\* of the dispatch that registered it.
C9_NoCollision ==
  [][\A j \in Jobs :
       LET w == taskResultWaiters[j]
       IN taskResultWaiters'[j] # w =>
            \/ w = NoExec
            \/ /\ taskResultWaiters'[j] = NoExec
               /\ \E r \in reconciling' \ reconciling :
                    r.executionId = w /\ r.settle = w]_vars

\* C10: a reload installs exactly the timers of the jobs its read found enabled,
\* and a job that is disabled, with every reload that was started finished, has no
\* timer and starts no run.
C10_ReloadInstalls ==
  \A l \in LoadIds :
    LoadTasksApply(l) =>
      /\ jobs' = loads[l].tasks
      /\ \A j \in Jobs : cronLive'[j] = IF j \in loads[l].tasks THEN 1 ELSE 0

C10_DisabledIsSilent ==
  \A j \in Jobs :
    (/\ ~scheduled_tasks[j].enabled
     /\ \A l \in LoadIds : loads[l].state = "idle")
    => /\ cronLive[j] = 0
       /\ ExecutionsOf(j)' = ExecutionsOf(j)

C10_ReloadExact == [][C10_ReloadInstalls /\ C10_DisabledIsSilent]_vars

\* C11: a start() on a started scheduler reads nothing and leaves the timers as
\* they are; a reload made by start(), also next to another start() still in
\* progress, leaves exactly one live timer for each job it read as enabled, the one
\* in the Map, and no job ever has two.
LiveTimersInMap ==
  \A j \in Jobs : cronLive[j] = IF j \in jobs THEN 1 ELSE 0

C11_StartStep ==
  /\ (isStarted /\ Start) => UNCHANGED <<loads, jobs, cronLive>>
  /\ \A l \in LoadIds :
       (loads[l].start /\ LoadTasksApply(l)) =>
         /\ isStarted'
         /\ \A j \in loads[l].tasks : j \in jobs' /\ cronLive'[j] = 1

C11_StartIdempotent == []LiveTimersInMap /\ [][C11_StartStep]_vars

C11_Witness ==
  /\ isStarted
  /\ \E l \in LoadIds : loads[l].state = "read" /\ loads[l].start
  /\ \E j \in Jobs : j \in jobs /\ cronLive[j] = 1

\* C12: scheduleTask with a valid cron expression, called by createTask or by a
\* reload, leaves the job with exactly one live timer, the one in the Map, whether
\* or not the id had a timer before, and writes nextRunAt of the job; no job ever
\* has a live timer outside the Map or two live timers.
C12_ScheduleStep ==
  /\ \A t \in inserted :
       CreateSchedule(t) =>
         /\ t._id \in jobs' /\ cronLive'[t._id] = 1
         /\ \A k \in Jobs \ {t._id} : cronLive'[k] = cronLive[k] /\ (k \in jobs' <=> k \in jobs)
         /\ Stored(t._id) =>
              scheduled_tasks'[t._id].nextRunAt = calculateNextRunTime(t.cronExpression, now)
  /\ \A l \in LoadIds :
       LoadTasksApply(l) =>
         \A j \in loads[l].tasks :
           validate(loads[l].cron[j]) =>
             /\ j \in jobs' /\ cronLive'[j] = 1
             /\ Stored(j) =>
                  scheduled_tasks'[j].nextRunAt = calculateNextRunTime(loads[l].cron[j], now)

C12_OneTimerPerJob ==
  /\ [](\A j \in Jobs : cronLive[j] <= 1 /\ (cronLive[j] > 0 => j \in jobs))
  /\ [][C12_ScheduleStep]_vars

C12_Witness ==
  /\ \E t \in inserted : t._id \in jobs /\ cronLive[t._id] = 1
  /\ \E j \in jobs : scheduled_tasks[j].nextRunAt # NoTime

\* C13: scheduleTask with a malformed cron expression installs no timer for the
\* job, writes no nextRunAt and leaves the timers of the other jobs alone; the
\* reload that met the malformed expression goes on and schedules the other jobs
\* it read.
C13_SkipOnMap ==
  \A j \in Jobs :
    LET st == [jobs |-> jobs, cronLive |-> cronLive]
        after == scheduleTask(st, j, Malformed)
    IN /\ j \notin after.jobs /\ after.cronLive[j] = 0
       /\ \A k \in Jobs \ {j} :
            after.cronLive[k] = st.cronLive[k] /\ (k \in after.jobs <=> k \in st.jobs)
       /\ updateNextRunTime(scheduled_tasks, j, Malformed) = scheduled_tasks

C13_SkipInReload ==
  \A l \in LoadIds :
    LoadTasksApply(l) =>
      \A j \in loads[l].tasks :
        IF validate(loads[l].cron[j])
        THEN j \in jobs' /\ cronLive'[j] = 1
        ELSE /\ j \notin jobs' /\ cronLive'[j] = 0
             /\ scheduled_tasks'[j].nextRunAt = scheduled_tasks[j].nextRunAt

C13_MalformedSkipped == []C13_SkipOnMap /\ [][C13_SkipInReload]_vars

C13_Witness ==
  /\ \A l \in LoadIds : loads[l].state = "idle"
  /\ \E j \in Jobs :
       /\ Stored(j) /\ scheduled_tasks[j].enabled /\ cronExpression(j) = Malformed
       /\ statusUpdates[j].pending > 0
       /\ j \notin jobs
  /\ jobs # {}

\* C14: removeTask destroys and removes the timer of its job and leaves the other
\* timers alone, and changes nothing when the job has no timer; from then on the
\* job has no live timer, and its timer starts no run, until a scheduleTask for the
\* job installs a new one.
C14_RemoveStep ==
  \A j \in Jobs :
    /\ DeleteRemove(j) =>
         /\ j \notin jobs' /\ cronLive'[j] = 0
         /\ \A k \in Jobs \ {j} : cronLive'[k] = cronLive[k] /\ (k \in jobs' <=> k \in jobs)
         /\ j \notin jobs => (jobs' = jobs /\ cronLive' = cronLive)
    /\ (cronLive[j] = 0 /\ cronLive'[j] > 0) =>
         \E l \in LoadIds : LoadTasksApply(l) /\ j \in loads[l].tasks
    /\ Cardinality(ExecutionsOf(j)') > Cardinality(ExecutionsOf(j)) =>
         j \in jobs /\ cronLive[j] = 1

C14_Unschedule == [][C14_RemoveStep]_vars

C14_Witness ==
  \E j \in Jobs :
    /\ deleting[j] = "removed"
    /\ j \notin jobs /\ cronLive[j] = 0
    /\ jobs # {}
    /\ \E e \in ExecutionsOf(j) : pc[e] = "done"

\* C15: no step of a run, from the timer callback to the reconciliation of its
\* failure, touches the timers; a job whose timer is live can be fired again
\* whatever became of its earlier runs.
C15_TimersKept ==
  (\/ \E j \in Jobs : CronFire(j)
   \/ \E e \in ExecIds, dbError \in BOOLEAN, shopFound \in BOOLEAN :
        QueueRun(e, dbError, shopFound)
   \/ \E e \in ExecIds : CatchUpdate(e)
   \/ TimeoutFire
   \/ \E r \in reconciling : Reconcile(r))
  => UNCHANGED <<jobs, cronLive, isStarted>>

C15_StillFires ==
  \A j \in Jobs :
    (cronLive[j] > 0 /\ Len(task_executions) < MaxExec) =>
      ENABLED (CronFire(j) /\ Len(task_executions') = Len(task_executions) + 1)

C15_FailureSwallowed == [][C15_TimersKept]_vars /\ []C15_StillFires

C15_Witness ==
  \E j \in Jobs :
    /\ j \in jobs /\ cronLive[j] = 1
    /\ \E e \in ExecutionsOf(j) :
         /\ pc[e] = "done" /\ task_executions[e].status = "failed"
         /\ task_executions[e].error = "ExecutionTimeout"
    /\ \E e \in ExecutionsOf(j) :
         pc[e] = "done" /\ task_executions[e].error = "NoWorkerAvailable"
    /\ \E e \in ExecutionsOf(j) : pc[e] = "started"

\* C16: the promise executeTaskNow waits on settles as the run ended: it resolves
\* only for an Execution reconciled as completed, and a run that met no worker, a
\* result other than 200 or the deadline of its dispatch rejects with that reason.
C16_ExecuteNowPropagates ==
  \A e \in Executions :
    /\ (pc[e] = "done" /\ outcome[e] = "resolved") =>
         task_executions[e].status = "completed"
    /\ pc[e] = "done" => outcome[e] # "none"
    /\ (pc[e] = "done" /\ task_executions[e].status = "failed") =>
         outcome[e] = task_executions[e].error
    /\ timeout[e] = "fired" =>
         \/ \E r \in reconciling : r.settle = e
         \/ outcome[e] = "ExecutionTimeout"

\* a socket the 'connection' handler closed with a reason is outside the set, is
\* sent nothing by a broadcast, and nothing it sends reaches a handler
C17_RefusedOutside ==
  \A c \in Conns :
    closeReason[c] # "none" =>
      /\ clients[c] = "refused"
      /\ c \notin Members
      /\ c \notin Delivered
      /\ \A j \in Jobs, code \in {200, 500} : ~ENABLED TaskResult(c, j, code)
      /\ \A j \in Jobs : ~ENABLED MalformedResult(c, j)
      /\ ~ENABLED DataMissing(c)

\* a socket becomes refused straight from the handshake, with the set, the stores,
\* the queue, the waiters and the broadcast counts left as they were; it never
\* becomes a member later; each kind of bad token has its own reason
C17_RefuseStep ==
  \A c \in Conns :
    /\ (clients[c] # "refused" /\ clients'[c] = "refused") =>
         /\ clients[c] = "absent"
         /\ Members' = Members
         /\ UNCHANGED <<storeVars, queueVars, waitVars, eventVars>>
    /\ clients[c] = "refused" => clients'[c] \in {"refused", "absent"}
    /\ Refuse(c, "missing") => closeReason'[c] = "Unauthorized"
    /\ Refuse(c, "invalid") => closeReason'[c] = "Invalid token"
    /\ ~(Refuse(c, "missing") /\ Refuse(c, "invalid"))

\* C17: a connection with no token or with an invalid token is closed before it is
\* added to the active set: it is never a member, is sent no server:connected,
\* task:execute or task:status-update, its messages are never routed, and the close
\* reason for a missing token is another one than for an invalid token.
C17_RefusedBeforeAdded == []C17_RefusedOutside /\ [][C17_RefuseStep]_vars

\* a socket refused for its invalid token while another one is a member and a
\* dispatch waits for its result
C17_Witness ==
  \E c, d \in Conns :
    /\ closeReason[c] = "Invalid token"
    /\ clients[d] = "open"
    /\ taskResultWaiters[1] # NoExec

\* the count broadcast returns is the number of members in readyState OPEN whose
\* send did not throw
C18_CountsSuccesses ==
  broadcast = Cardinality({c \in Conns : c \in Members /\ readyState(c) = 1 /\ send(c)})

\* a dispatch records the count of the sockets it reached and, having reached one,
\* goes on to wait for the result whatever the other sockets did; no step that
\* broadcasts a task:execute or a task:status-update touches the set
C18_BroadcastStep ==
  /\ \A e \in ExecIds :
       sentExecute'[e] # sentExecute[e] =>
         /\ sentExecute'[e] = Cardinality(Delivered)
         /\ pc'[e] = "waiting"
  /\ (sentExecute' # sentExecute \/ statusUpdates' # statusUpdates) => clients' = clients

\* the set changes on connect, close, error and stop only
C18_MembershipStep ==
  Members' # Members =>
    \/ \E c \in Conns : Connect(c) \/ Close(c) \/ SocketError(c)
    \/ WsStop

\* C18: broadcast attempts a send to every open connection and returns exactly the
\* number of sends that succeeded; a send that fails on one connection is not
\* propagated, does not stop the sends to the others and does not change the
\* membership set, which changes only on connect, close, error and stop.
C18_BroadcastCounts ==
  /\ []C18_CountsSuccesses
  /\ [][C18_BroadcastStep /\ C18_MembershipStep]_vars

\* a dispatch that reached the one healthy socket while the other socket of the
\* set throws on send
C18_Witness ==
  \E e \in ExecIds, c, d \in Conns :
    /\ clients[c] = "broken"
    /\ clients[d] = "open"
    /\ pc[e] = "waiting"
    /\ sentExecute[e] = 1
    /\ broadcast = 1
    /\ getClientCount = 2

\* C19: an inbound message that is not a well-formed task:result (client:ready, an
\* unknown type, unparseable text, a task:result with no data or with no result)
\* is ignored: no job, no Execution and no waiter entry changes, no timer is
\* cleared, no waiting caller is settled, the socket stays in the set and no
\* rejection is left unhandled.
C19_MalformedIgnored ==
  [][\A c \in Conns, j \in Jobs :
       (IgnoredMessage(c) \/ DataMissing(c) \/ MalformedResult(c, j)) =>
         /\ UNCHANGED <<scheduled_tasks, task_executions, taskResultWaiters, timeout,
                        armOrder, outcome, clients>>
         /\ unhandled' = unhandled]_vars

\* with the server stopped the set is empty, a broadcast reaches nobody and no
\* handshake is accepted
C20_Stopped ==
  ~wss =>
    /\ Members = {}
    /\ getClientCount = 0
    /\ broadcast = 0
    /\ Delivered = {}
    /\ \A c \in Conns : ~ENABLED Connect(c)

\* stop asks every member to close and takes it out of the set; while the server
\* is stopped no socket joins, no dispatch counts a recipient or waits for one
C20_StopStep ==
  /\ (wss /\ ~wss') =>
       \A c \in Members : clients'[c] = "released" /\ c \notin Members'
  /\ ~wss =>
       /\ Members' = {} \/ wss'
       /\ sentExecute' = sentExecute
       /\ \A e \in ExecIds : pc[e] # "waiting" => pc'[e] # "waiting"

\* C20: after stop() of the worker channel the membership set is empty, every
\* member has been asked to close, no new connection is accepted, and a later
\* broadcast or dispatch reaches zero recipients.
C20_StopClears == []C20_Stopped /\ [][C20_StopStep]_vars

\* the server stopped with a socket it asked to close; the run dispatched before
\* the stop reached that socket, the run dispatched after it found no worker
C20_Witness ==
  /\ ~wss
  /\ \E c \in Conns : clients[c] = "released"
  /\ \E e, f \in ExecIds :
       /\ e < f
       /\ sentExecute[e] = 1
       /\ outcome[f] = "NoWorkerAvailable"

\* the changes of a job's status the state machine has, a finished job going back
\* to running when it is admitted again
StatusEdges ==
  {<<"pending", "running">>, <<"running", "completed">>, <<"running", "failed">>,
   <<"completed", "pending">>, <<"failed", "pending">>,
   <<"completed", "running">>, <<"failed", "running">>}

\* C21: the status of a job changes along pending -> running -> {completed,
\* failed} -> pending only: it becomes completed or failed from running only, and
\* never goes from completed to failed or back without a running in between.
C21_StatusMachine ==
  [][\A j \in Jobs :
       scheduled_tasks'[j].status # scheduled_tasks[j].status =>
         <<scheduled_tasks[j].status, scheduled_tasks'[j].status>> \in StatusEdges]_vars

\* C22: an Execution is immutable once completedAt is set: no later step writes
\* its status, completedAt or error again, and no log entry is appended to it.
C22_ImmutableOnceEnded ==
  [][\A e \in DOMAIN task_executions :
       (task_executions[e].completedAt # NoTime /\ task_executions'[e].status # "deleted") =>
         /\ task_executions'[e] = task_executions[e]
         /\ ended'[e] = ended[e]
         /\ logs'[e] = logs[e]]_vars

\* C23: every status event a reconciliation publishes carries the updated
\* counters: the failureCount in the message, and the successCount where the
\* message has one, are the values the store holds for the job after the update.
C23_EventCarriesCounters ==
  [][\A j \in Jobs :
       (\/ statusUpdates'[j].completed # statusUpdates[j].completed
        \/ statusUpdates'[j].failed # statusUpdates[j].failed) =>
         /\ lastUpdate'.taskId = j
         /\ lastUpdate'.failureCount = scheduled_tasks'[j].failureCount
         /\ lastUpdate'.successCount # NoCount =>
              lastUpdate'.successCount = scheduled_tasks'[j].successCount]_vars

C25_DeleteIsFinal ==
  \A j \in Jobs :
    scheduled_tasks[j].doc = "deleted" =>
      /\ j \notin jobs
      /\ cronLive[j] = 0
      /\ \A e \in ExecutionsOf(j) : task_executions[e].status = "deleted"

\* the step in which the queued function of run e finds the conflict
ConflictFound(e) ==
  outcome[e] # "ConcurrentExecution" /\ outcome'[e] = "ConcurrentExecution"

\* C26: when the queued function finds a conflict, nothing is pushed and no waiter
\* or timer is registered for the run; the Execution is failed with the conflict
\* error, the job gets status failed and a recomputed nextRunAt, and one failed
\* status message goes out.
C26_ConflictStep ==
  \A e \in ExecIds :
    ConflictFound(e) =>
      LET j == task_executions[e].taskId
      IN /\ pc[e] = "started"
         /\ sentExecute' = sentExecute
         /\ taskResultWaiters'[j] \in {taskResultWaiters[j], NoExec}
         /\ timeout'[e] = "none"
         /\ armOrder' = Remove(armOrder, taskResultWaiters[j])
         /\ reconciling' = reconciling
         /\ task_executions[e].status # "deleted" =>
              /\ task_executions'[e].status = "failed"
              /\ task_executions'[e].error = "ConcurrentExecution"
              /\ task_executions'[e].completedAt = now
         /\ Stored(j) =>
              /\ scheduled_tasks'[j].status = "failed"
              /\ scheduled_tasks'[j].nextRunAt = calculateNextRunTime(cronExpression(j), now)
         /\ statusUpdates'[j].failed = statusUpdates[j].failed + 1
         /\ lastUpdate'.taskId = j
         /\ lastUpdate'.status = "failed"
         /\ lastUpdate'.nextRunAt = calculateNextRunTime(cronExpression(j), now)

C26_ConflictAborts == [][C26_ConflictStep]_vars

\* a run that found the conflict while a worker was connected: failed, nothing sent
C26_Witness ==
  \E e \in Executions :
    /\ outcome[e] = "ConcurrentExecution"
    /\ task_executions[e].status = "failed"
    /\ task_executions[e].error = "ConcurrentExecution"
    /\ sentExecute[e] = 0
    /\ statusUpdates[task_executions[e].taskId].failed > 0
    /\ \E c \in Members : clients[c] = "open"

\* the step in which an executeTask call that passed its check inserts its Execution
Admitted == Len(task_executions') > Len(task_executions)

\* C27: a call that passes the check inserts exactly one Execution with status
\* running, sets the job to running, adds exactly 1 to runCount and sends one
\* running status message, and only then hands the work to the queue: nothing of
\* the run has been sent to a worker, and the work either starts or waits. The
\* running status, runCount and the running message change in no other step.
C27_AdmissionStep ==
  /\ Admitted =>
       LET e == Len(task_executions')
           j == task_executions'[e].taskId
       IN /\ e = Len(task_executions) + 1
          /\ \A d \in Executions : task_executions'[d] = task_executions[d]
          /\ task_executions'[e].status = "running"
          /\ task_executions'[e].completedAt = NoTime
          /\ Stored(j) =>
               /\ scheduled_tasks'[j].status = "running"
               /\ scheduled_tasks'[j].runCount = scheduled_tasks[j].runCount + 1
          /\ \A k \in Jobs \ {j} : scheduled_tasks'[k] = scheduled_tasks[k]
          /\ statusUpdates' = [statusUpdates EXCEPT ![j]["running"] = @ + 1]
          /\ lastUpdate'.taskId = j /\ lastUpdate'.status = "running"
          /\ pc[e] = "none"
          /\ pc'[e] \in {"started", "queued"}
          /\ pc'[e] = "queued" <=> (queue' = Append(queue, e))
          /\ pc'[e] = "started" <=> (queue' = queue /\ pending' = pending + 1)
          /\ sentExecute'[e] = 0
          /\ taskResultWaiters' = taskResultWaiters
          /\ timeout'[e] = "none"
  /\ \A j \in Jobs :
       (\/ scheduled_tasks'[j].runCount # scheduled_tasks[j].runCount
        \/ statusUpdates'[j]["running"] # statusUpdates[j]["running"]
        \/ (scheduled_tasks'[j].status = "running" /\ scheduled_tasks[j].status # "running")) =>
         Admitted /\ task_executions'[Len(task_executions')].taskId = j

C27_RunningBeforeQueue == [][C27_AdmissionStep]_vars

\* the job is running and every call has counted once, while the latest run waits
\* in the queue with nothing sent, though a worker is connected
C27_Witness ==
  \E e \in Executions :
    /\ pc[e] = "queued"
    /\ e = Len(task_executions)
    /\ task_executions[e].status = "running"
    /\ scheduled_tasks[task_executions[e].taskId].status = "running"
    /\ scheduled_tasks[task_executions[e].taskId].runCount = Len(task_executions)
    /\ statusUpdates[task_executions[e].taskId]["running"] = Len(task_executions)
    /\ sentExecute[e] = 0
    /\ \E c \in Members : clients[c] = "open"

\* C29: operations that wait start in the order of their submission (the order of
\* the Execution ids): the queue holds them in that order, and no operation starts
\* while one submitted before it still waits.
C29_FifoStep ==
  /\ \A i \in 1..(Len(queue) - 1) : queue[i] < queue[i + 1]
  /\ \A x \in ExecIds, y \in ExecIds :
       (x < y /\ pc[x] = "queued" /\ pc[y] = "queued") =>
         ~(pc'[y] = "started" /\ pc'[x] = "queued")

C29_FifoOrder == [][C29_FifoStep]_vars

\* two operations were submitted while the first three runs held every slot (no
\* run had failed yet when they were submitted); the earlier one has started and
\* the later one still waits
C29_Witness ==
  \E x \in Executions, y \in Executions :
    /\ x < y
    /\ x > Concurrency
    /\ snapshot[x] = 0 /\ snapshot[y] = 0
    /\ pc[x] = "started"
    /\ pc[y] = "queued"
    /\ scheduled_tasks[task_executions[x].taskId].failureCount > 0

\* the step in which the queued function of run e, having counted at least one
\* client, goes through executeTaskInClient
Dispatch(e) ==
  /\ pc[e] = "started"
  /\ pc'[e] # "started"
  /\ getClientCount > 0
  /\ outcome'[e] \notin {"ConcurrentExecution", "ShopMissing"}

\* C30: the dispatch sends task:execute to every open connection and counts those
\* sends; the waiter of the job is registered, with its timer armed, exactly when
\* at least one send succeeded. With clients counted but no send made, no waiter
\* and no armed timer are left and the run goes straight to its failure.
C30_DispatchStep ==
  \A e \in ExecIds :
    Dispatch(e) =>
      LET j == task_executions[e].taskId
          sentCount == Cardinality(Delivered)
      IN /\ sentExecute'[e] = sentCount
         /\ \A d \in ExecIds \ {e} : sentExecute'[d] = sentExecute[d]
         /\ (taskResultWaiters'[j] = e) <=> (sentCount >= 1)
         /\ sentCount >= 1 =>
              /\ timeout'[e] = "armed"
              /\ pc'[e] = "waiting"
         /\ sentCount = 0 =>
              /\ taskResultWaiters'[j] = NoExec
              /\ timeout'[e] = "cleared"
              /\ armOrder' = armOrder
              /\ pc'[e] = "catchUpdate"
              /\ outcome'[e] = "WorkerPush"

C30_DispatchRegisters == [][C30_DispatchStep]_vars

\* a run that was dispatched while a client was counted and no send could be made:
\* it has failed, nothing was sent, no waiter and no armed timer are left
C30_Witness ==
  \E e \in Executions :
    /\ outcome[e] = "WorkerPush"
    /\ pc[e] = "done"
    /\ task_executions[e].status = "failed"
    /\ sentExecute[e] = 0
    /\ timeout[e] = "cleared"
    /\ taskResultWaiters[task_executions[e].taskId] = NoExec

\* the reconciliations of failed results that are under way
FailedResults == {r \in reconciling : r.kind = "result" /\ r.code # 200}

\* C31: a result with a code other than 200 that finds a waiter takes the waiter
\* and clears its timer; its reconciliation fails the Execution with the error of
\* the result, sets the job to failed and rejects the parked promise. A cleared
\* timer never fires, and a timeout reconciles only a run whose timer was armed.
C31_FailedResultStep ==
  /\ \A r \in FailedResults' \ FailedResults :
       /\ taskResultWaiters[r.taskId] = r.executionId
       /\ taskResultWaiters'[r.taskId] = NoExec
       /\ timeout[r.executionId] = "armed"
       /\ timeout'[r.executionId] = "cleared"
       /\ \A i \in 1..Len(armOrder') : armOrder'[i] # r.executionId
  /\ \A r \in FailedResults \ FailedResults' :
       LET e == r.executionId
       IN /\ task_executions[e].status # "deleted" =>
               /\ task_executions'[e].status = "failed"
               /\ task_executions'[e].error = "ResultFailed"
               /\ task_executions'[e].completedAt = now
          /\ Stored(r.taskId) =>
               /\ scheduled_tasks'[r.taskId].status = "failed"
               /\ statusUpdates'[r.taskId].failed = statusUpdates[r.taskId].failed + 1
          /\ pc[e] = "waiting" =>
               /\ pc'[e] \in {"catchUpdate", "done"}
               /\ outcome'[e] = "ResultFailed"
          /\ timeout'[e] = "cleared"
  /\ \A e \in ExecIds : timeout[e] = "cleared" => timeout'[e] = "cleared"
  /\ \A r \in reconciling' \ reconciling :
       r.kind = "timeout" => timeout[r.executionId] = "armed"

C31_FailedResult == [][C31_FailedResultStep]_vars

\* a run whose worker answered with code 500: failed with the error of the result,
\* the promise rejected, the timer cleared and no waiter left, the job failed
C31_Witness ==
  \E e \in Executions :
    /\ outcome[e] = "ResultFailed"
    /\ pc[e] = "done"
    /\ task_executions[e].status = "failed"
    /\ task_executions[e].error = "ResultFailed"
    /\ timeout[e] = "cleared"
    /\ sentExecute[e] > 0
    /\ taskResultWaiters[task_executions[e].taskId] = NoExec
    /\ scheduled_tasks[task_executions[e].taskId].status = "failed"

\* every operation on the schedule has completed: the scheduler has started, no
\* reload is between its read and its scheduling, no created job waits for its
\* scheduleTask, no delete is under way
AllCompleted ==
  /\ isStarted
  /\ \A l \in LoadIds : loads[l].state = "idle"
  /\ inserted = {}
  /\ \A j \in Jobs : deleting[j] = "none"

\* C32: once every operation has completed, the jobs with a timer are the enabled
\* jobs of the store (those with an expression the validator accepts): the Map
\* and the live timers hold exactly them.
C32_TimersMatchStore ==
  AllCompleted =>
    \A j \in Jobs :
      LET wanted == Stored(j) /\ scheduled_tasks[j].enabled /\ validate(cronExpression(j))
      IN /\ j \in jobs <=> wanted
         /\ cronLive[j] = IF wanted THEN 1 ELSE 0

\* C33: for every stored job successCount + failureCount never exceeds runCount,
\* and no step lowers runCount, successCount or failureCount of a job that stays
\* in the store.
C33_CountersBounded ==
  /\ [](\A j \in Jobs :
         Stored(j) =>
           scheduled_tasks[j].successCount + scheduled_tasks[j].failureCount
             <= scheduled_tasks[j].runCount)
  /\ [][\A j \in Jobs :
         (Stored(j) /\ Stored(j)') =>
           /\ scheduled_tasks'[j].runCount >= scheduled_tasks[j].runCount
           /\ scheduled_tasks'[j].successCount >= scheduled_tasks[j].successCount
           /\ scheduled_tasks'[j].failureCount >= scheduled_tasks[j].failureCount]_vars

\* C34: a task:result for a job with no waiter changes nothing. A result is taken
\* up only for the run whose waiter is under the job id, that waiter is removed
\* with it, and a run's waiter is stored only by its own dispatch; so no second
\* result is taken up for the same dispatch.
C34_NoWaiterStep ==
  /\ \A c \in Conns, j \in Jobs, code \in {200, 500} :
       (TaskResult(c, j, code) /\ taskResultWaiters[j] = NoExec) => UNCHANGED vars
  /\ \A r \in reconciling' \ reconciling :
       r.kind = "result" =>
         /\ taskResultWaiters[r.taskId] = r.executionId
         /\ taskResultWaiters'[r.taskId] = NoExec
         /\ timeout[r.executionId] = "armed"
         /\ \A q \in reconciling : q.executionId # r.executionId
  /\ \A j \in Jobs :
       (taskResultWaiters'[j] # NoExec /\ taskResultWaiters'[j] # taskResultWaiters[j]) =>
         pc[taskResultWaiters'[j]] = "started"

C34_NoWaiterNoEffect == [][C34_NoWaiterStep]_vars

\* a run that was sent to two workers and reconciled once by a result; both
\* workers are still connected and no waiter is left for a second result
C34_Witness ==
  \E e \in Executions :
    /\ sentExecute[e] = 2
    /\ outcome[e] = "resolved"
    /\ pc[e] = "done"
    /\ ended[e] = 1
    /\ taskResultWaiters[task_executions[e].taskId] = NoExec
    /\ Cardinality(Delivered) = 2

\* the dispatches whose waiter a handler has taken and not yet reconciled
Taken(kind) == {r.executionId : r \in {q \in reconciling : q.kind = kind}}

\* C35: no dispatch is ever in the hands of the result handler and of the timeout
\* handler, nor twice in the hands of one; a handler takes up a dispatch only by
\* taking its waiter out of the map, a timer that was cleared never fires, and a
\* run's waiter is put into the map only by its own dispatch, which happens once.
C35_OneHandler ==
  /\ Taken("result") \cap Taken("timeout") = {}
  /\ \A r \in reconciling, q \in reconciling : r.executionId = q.executionId => r = q
  /\ \A r \in reconciling : taskResultWaiters[r.taskId] # r.executionId
  /\ \A e \in Taken("result") : timeout[e] = "cleared"

C35_HandlerStep ==
  /\ \A r \in reconciling' \ reconciling :
       /\ taskResultWaiters[r.taskId] = r.executionId
       /\ taskResultWaiters'[r.taskId] = NoExec
       /\ r.kind = "timeout" =>
            /\ timeout[r.settle] = "armed" /\ timeout'[r.settle] = "fired"
            /\ timeout[r.executionId] = "armed"
  /\ \A e \in ExecIds :
       /\ timeout[e] \in {"cleared", "fired"} => timeout'[e] = timeout[e]
       /\ (timeout'[e] = "armed" /\ timeout[e] # "armed") =>
            /\ timeout[e] = "none"
            /\ pc[e] = "started"
            /\ taskResultWaiters'[task_executions[e].taskId] = e

C35_ResultXorTimeout == []C35_OneHandler /\ [][C35_HandlerStep]_vars

\* a run that its own timer reconciled, with nothing under way and a worker still
\* connected that can send a late result
C35_Witness ==
  \E e \in Executions :
    /\ timeout[e] = "fired"
    /\ outcome[e] = "ExecutionTimeout"
    /\ task_executions[e].error = "ExecutionTimeout"
    /\ pc[e] = "done"
    /\ reconciling = {}
    /\ taskResultWaiters[task_executions[e].taskId] = NoExec
    /\ \E c \in Members : clients[c] = "open"

\* C36: an executeTask call whose conflict query fails changes nothing: no
\* Execution is inserted, no job field written, nothing queued or published; every
\* step that inserts an Execution is a call whose query answered.
C36_FailClosedStep ==
  /\ \A j \in Jobs :
       \A failureCount \in {cronTask[j], scheduled_tasks[j].failureCount} :
         executeTask(j, TRUE, failureCount) => UNCHANGED vars
  /\ Admitted =>
       LET e == Len(task_executions')
           j == task_executions'[e].taskId
       IN /\ ~checkRunningTask(shopId(j), taskType(j), j, FALSE)
          /\ executeTask(j, FALSE, snapshot'[e])

C36_FailClosed == [][C36_FailClosedStep]_vars

\* a stored job that has never run and that no job conflicts with, so that only
\* the failing query keeps a call from being admitted, while another job runs
C36_Witness ==
  \E j \in Jobs :
    /\ Stored(j)
    /\ scheduled_tasks[j].runCount = 0
    /\ scheduled_tasks[j].status = "pending"
    /\ ExecutionsOf(j) = {}
    /\ ~checkRunningTask(shopId(j), taskType(j), j, FALSE)
    /\ checkRunningTask(shopId(j), taskType(j), j, TRUE)
    /\ Len(task_executions) < MaxRuns
    /\ \E e \in Executions : pc[e] = "waiting"

\* C37: every operation that waits in the queue eventually starts, and every
\* operation that holds a slot eventually settles and frees it.
C37_SlotsFreed ==
  \A e \in ExecIds :
    /\ (pc[e] = "queued") ~> (pc[e] # "queued")
    /\ (e \in InFlight) ~> (pc[e] = "done")

\* the job ids that have an entry in taskResultWaiters
WaiterKeys == {j \in Jobs : taskResultWaiters[j] # NoExec}

\* C38: the map never has more entries than operations are in flight, hence never
\* more than the concurrency of the queue, and every entry is the waiter of a run
\* of that job whose operation is in flight.
C38_WaitersInFlight ==
  /\ Cardinality(WaiterKeys) <= Cardinality(InFlight)
  /\ Cardinality(InFlight) <= Concurrency
  /\ \A j \in WaiterKeys :
       /\ taskResultWaiters[j] \in InFlight
       /\ task_executions[taskResultWaiters[j]].taskId = j
       /\ pc[taskResultWaiters[j]] = "waiting"

\* two jobs dispatched at once, each with its entry, and a third run in flight
C38_Witness ==
  /\ Cardinality(WaiterKeys) = 2
  /\ Cardinality(InFlight) = Concurrency

\* C39: a reload whose read fails leaves the Map and every timer as they were and
\* writes nothing; when the reload was made by start() the scheduler is marked
\* started all the same. A start() on a started scheduler does nothing, and a job
\* gets a timer only from a reload that schedules what it read.
C39_ReadFailsStep ==
  /\ \A l \in LoadIds :
       LoadTasksFail(l) =>
         /\ jobs' = jobs
         /\ cronLive' = cronLive
         /\ scheduled_tasks' = scheduled_tasks
         /\ loads[l].start => isStarted'
         /\ isStarted => isStarted'
         /\ loads'[l].state = "idle"
  /\ (isStarted /\ Start) => UNCHANGED <<loads, jobs, cronLive, isStarted>>
  /\ \A j \in Jobs :
       (cronLive[j] = 0 /\ cronLive'[j] > 0) =>
         \E l \in LoadIds : LoadTasksApply(l) /\ j \in loads[l].tasks

C39_ReadFails == [][C39_ReadFailsStep]_vars

\* the read of start() has failed: the scheduler is started, nothing is under way,
\* no timer is installed, and the enabled jobs of the store were never scheduled
C39_Witness ==
  /\ isStarted
  /\ \A l \in LoadIds : loads[l].state = "idle"
  /\ jobs = {}
  /\ \A j \in Jobs : cronLive[j] = 0
  /\ \E j \in Jobs :
       /\ Stored(j) /\ scheduled_tasks[j].enabled /\ validate(cronExpression(j))
       /\ scheduled_tasks[j].nextRunAt = NoTime
  /\ ENABLED Start

====
